---- MODULE Spec2Model ----
(***************************************************************************)
(* A model of the scenario runner of main.go: ScenarioRun with its permit  *)
(* goroutine (rate limiter), its dispatcher goroutine, its pool of         *)
(* scenarioWorker goroutines and the collection loop that folds the        *)
(* results into a ScenarioReport, all under one cancellable context.       *)
(***************************************************************************)
EXTENDS Integers, Sequences, FiniteSets

(* ---- bounds of the model ---- *)
MaxWorkers == 2            \* httpWorkerNum ranges over 1..MaxWorkers
MaxPeriod == 2             \* *s.Period ranges over 0..MaxPeriod
MaxCount == 3              \* *s.Count ranges over 0..MaxCount
MaxThroughputNum == 2      \* s.Throughput ranges over (1..MaxThroughputNum)/ThroughputDen
ThroughputDen == 2         \* s.Throughput is a multiple of 1/ThroughputDen
CountMaxPeriod == 10       \* the same three, for the target count alone (SpecCount)
CountMaxCount == 5
CountMaxThroughputNum == 5
RateMaxCount == 4          \* *s.Count of the timed runs (SpecRate)
MaxTime == 5               \* the clock of the timed runs stops at MaxTime ticks
MaxScenarios == 2          \* scenarios of the scenario file (SpecMain)
MaxReport == 1             \* SuccessCount of a returned report ranges over 0..MaxReport
MaxRules == 2              \* s.Validates has at most MaxRules rules (SpecValidate)

(* ---- optional (pointer) fields: nil is <<>>, a set pointer is <<v>> ---- *)
Nil == <<>>
Some(v) == <<v>>
Deref(p) == p[1]

VARIABLES
  Period,          \* s.Period: Nil or Some(seconds)
  Count,           \* s.Count: Nil or Some(n)
  Throughput,      \* s.Throughput, as a numerator over ThroughputDen
  Validates,       \* s.Validates: sequence of StatusCode fields (Nil or Some(code))
  httpWorkerNum,   \* the pool size and the capacity of scenarioCh
  cancelled,       \* ctx.Done() is closed
  panicked,        \* the process died of a runtime panic
  mainPc,          \* ScenarioRun: "start", "collect", "returned"
  count,           \* ScenarioRun's local count (the target count)
  success, validationFail, requestFail,    \* the collection loop's counters
  rlPc,            \* permit goroutine: "call", "timer", "send", "closed"
  tokens,          \* tokens in the limiter's bucket (burst 1)
  dPc,             \* dispatcher: "none", "loop", "enqueue", "drain", "closed"
  i,               \* dispatcher's loop variable of the dispatch loop
  c,               \* dispatcher's counter of dispatched units
  drained,         \* dispatcher's loop variable of the drain loop
  scenarioCh,      \* number of units buffered in scenarioCh
  wPc,             \* per worker: its position in scenarioWorker
  nReport,         \* per worker: results sent for the unit it took last
  nDone,           \* per worker: completion signals sent for the unit it took last
  wResp,           \* per worker: how the request of its unit ended (err, resp.StatusCode)
  wEval,           \* per worker: validation rules evaluated for its unit
  dueAtCancel,     \* results counted, or owed by a worker holding a unit, at cancel()
  now,             \* the time, in ticks
  credit,          \* the part of the next token the bucket holds, in 1/ThroughputDen
  gName,           \* main, per scenario goroutine: s.Name
  gNoTerm,         \* main, per scenario goroutine: s has neither period nor count
  gPc,             \* main, per scenario goroutine: its position
  gReport,         \* main, per scenario goroutine: report (Nil before ScenarioRun returns)
  mutex,           \* main: 0 when unlocked, else the goroutine whose Lock locked it
  reports,         \* main: the map reports, name -> Nil (no entry) or Some(report)
  wg,              \* main: the WaitGroup's counter
  mgrPc,           \* main: "wait" (wg.Wait), "result"
  writeOrder       \* the goroutines in the order of their writes to reports

vars == <<Period, Count, Throughput, Validates, httpWorkerNum, cancelled, panicked,
          mainPc, count, success, validationFail, requestFail, rlPc, tokens,
          dPc, i, c, drained, scenarioCh, wPc, nReport, nDone, wResp, wEval,
          now, credit, gName, gNoTerm, gPc, gReport, mutex, reports, wg, mgrPc,
          writeOrder, dueAtCancel>>

config == <<Period, Count, Throughput, Validates, httpWorkerNum>>
counters == <<success, validationFail, requestFail>>
limiter == <<rlPc, tokens>>
dispatcher == <<dPc, i, c, drained>>
workers == <<wPc, nReport, nDone>>
request == <<wResp, wEval>>
clock == <<now, credit>>
manager == <<gName, gNoTerm, gPc, gReport, mutex, reports, wg, mgrPc, writeOrder>>
history == <<dueAtCancel>>
scenario == <<config, history, request, clock, cancelled, mainPc, count, counters, rlPc, tokens,
              dPc, i, c, drained, scenarioCh, wPc, nReport, nDone>>

Names == {"a", "b"}

Workers == 1..httpWorkerNum

(* ---- ResultState ---- *)
ResultOK == "ResultOK"
ResultValidationFail == "ResultValidationFail"
ResultRequestFail == "ResultRequestFail"

(* The status codes a response may carry, and the request's ways to end. *)
StatusCodes == {200, 404}
Responses ==
  {[err |-> "NewRequest", status |-> 0], [err |-> "Do", status |-> 0]}
    \cup {[err |-> "nil", status |-> st] : st \in StatusCodes}
\* no request made (yet) for the unit
NoResponse == [err |-> "none", status |-> 0]

\* ---- the target count: count = int(math.Ceil(float64(period) * throughput)) ----
Floor(a, b) == a \div b
Ceil(a, b) == -((-a) \div b)

TargetCount(period, cnt, thr) ==
  IF period # Nil THEN Ceil(Deref(period) * thr, ThroughputDen)
  ELSE Deref(cnt)

(* ---- the validation loop: the index of the first failing rule, 0 if none ---- *)
RuleFails(v, status) == v # Nil /\ status # Deref(v)

\* (a loop that does not stop at the first failing rule ends on the last one)
LastFailing(rules, status) ==
  IF \E k \in 1..Len(rules) : RuleFails(rules[k], status)
  THEN CHOOSE k \in 1..Len(rules) :
         /\ RuleFails(rules[k], status)
         /\ \A m \in (k + 1)..Len(rules) : ~RuleFails(rules[m], status)
  ELSE 0

FirstFailing(rules, status) ==
  IF \E k \in 1..Len(rules) : RuleFails(rules[k], status)
  THEN CHOOSE k \in 1..Len(rules) :
         /\ RuleFails(rules[k], status)
         /\ \A m \in 1..(k - 1) : ~RuleFails(rules[m], status)
  ELSE 0

(* ---- initial states ---- *)
InitScenario(periods, counts, thrs, pools, rules) ==
  /\ Period \in periods
  /\ Count \in counts
  /\ Throughput \in thrs
  /\ Validates \in rules
  /\ httpWorkerNum \in pools
  /\ dueAtCancel = 0
  /\ cancelled = FALSE
  /\ panicked = FALSE
  /\ mainPc = "start"
  /\ count = 0
  /\ success = 0 /\ validationFail = 0 /\ requestFail = 0
  /\ rlPc = "call"
  /\ tokens = 1
  /\ dPc = "none"
  /\ i = 1 /\ c = 0 /\ drained = 0
  /\ scenarioCh = 0
  /\ wPc = [w \in 1..httpWorkerNum |-> "none"]
  /\ nReport = [w \in 1..httpWorkerNum |-> 0]
  /\ nDone = [w \in 1..httpWorkerNum |-> 0]
  /\ wResp = [w \in 1..httpWorkerNum |-> NoResponse]
  /\ wEval = [w \in 1..httpWorkerNum |-> 0]
  /\ now = 0
  /\ credit = 0

\* one ScenarioRun, looked at alone: no scenario goroutine of main
InitWith(periods, counts, thrs, pools, rules) ==
  /\ InitScenario(periods, counts, thrs, pools, rules)
  /\ gName = <<>> /\ gNoTerm = <<>> /\ gPc = <<>> /\ gReport = <<>>
  /\ mutex = 0
  /\ reports = [n \in Names |-> Nil]
  /\ wg = 0
  /\ mgrPc = "wait"
  /\ writeOrder = <<>>

Init ==
  InitWith({Nil} \cup {Some(p) : p \in 0..MaxPeriod},
           {Nil} \cup {Some(n) : n \in 0..MaxCount},
           1..MaxThroughputNum,
           1..MaxWorkers,
           {<<Some(200)>>})

Alive == ~panicked

(* ---- the context: cancel() of main, on an interrupt ---- *)
Cancel ==
  /\ Alive
  /\ ~cancelled
  /\ cancelled' = TRUE
  /\ UNCHANGED <<config, manager, history, request, clock, panicked, mainPc, count, counters, limiter, dispatcher,
                 scenarioCh, workers>>

(* ---- the permit goroutine of ScenarioRun and its limiter (burst 1) ---- *)
\* Time passes: the bucket, of size 1, refills at rate s.Throughput.
RlRefill ==
  /\ Alive
  /\ Throughput > 0
  /\ tokens = 0
  /\ tokens' = 1
  /\ UNCHANGED <<config, manager, history, request, clock, cancelled, panicked, mainPc, count, counters, rlPc,
                 dispatcher, scenarioCh, workers>>

\* One tick passes, at a rate of Throughput/ThroughputDen tokens a tick (at
\* most one): the bucket gains that much and holds at most one token. A Wait
\* that is waiting has reserved the next token: it returns when the token is
\* there, and what the tick brought beyond it stays in the bucket.
Tick ==
  /\ Alive
  /\ now < MaxTime
  /\ now' = now + 1
  /\ IF tokens = 1
     THEN UNCHANGED <<tokens, credit, rlPc>>
     ELSE IF credit + Throughput < ThroughputDen
          THEN credit' = credit + Throughput /\ UNCHANGED <<tokens, rlPc>>
          ELSE IF rlPc = "timer"
               THEN /\ rlPc' = "send"
                    /\ credit' = credit + Throughput - ThroughputDen
                    /\ UNCHANGED tokens
               ELSE tokens' = 1 /\ credit' = 0 /\ UNCHANGED rlPc
  /\ UNCHANGED <<config, manager, history, request, cancelled, panicked, mainPc, count, counters,
                 dispatcher, scenarioCh, workers>>

\* (a permit goroutine that ignores the error of rl.Wait and sends a permit)
RlWaitCallIgnoreErr ==
  /\ Alive
  /\ rlPc = "call"
  /\ IF cancelled
     THEN rlPc' = "send" /\ tokens' = tokens
     ELSE IF tokens = 1
          THEN rlPc' = "send" /\ tokens' = 0
          ELSE /\ rlPc' \in (IF Throughput = 0 THEN {"timer", "closed"} ELSE {"timer"})
               /\ tokens' = tokens
  /\ UNCHANGED <<config, manager, history, request, clock, cancelled, panicked, mainPc, count, counters,
                 dispatcher, scenarioCh, workers>>

\* rl.Wait(ctx) is called: it fails at once on a cancelled context, takes a
\* token that is there, and otherwise waits for one. With a rate of 0 no token
\* ever comes: Wait either waits for the cancellation or fails at once.
RlWaitCall ==
  /\ Alive
  /\ rlPc = "call"
  /\ IF cancelled
     THEN rlPc' = "closed" /\ tokens' = tokens
     ELSE IF tokens = 1
          THEN rlPc' = "send" /\ tokens' = 0
          ELSE /\ rlPc' \in (IF Throughput = 0 THEN {"timer", "closed"} ELSE {"timer"})
               /\ tokens' = tokens
  /\ UNCHANGED <<config, manager, history, request, clock, cancelled, panicked, mainPc, count, counters,
                 dispatcher, scenarioCh, workers>>

\* rl.Wait(ctx) returns nil: the awaited token has come.
RlWaitToken ==
  /\ Alive
  /\ rlPc = "timer"
  /\ tokens = 1
  /\ tokens' = 0
  /\ rlPc' = "send"
  /\ UNCHANGED <<config, manager, history, request, clock, cancelled, panicked, mainPc, count, counters,
                 dispatcher, scenarioCh, workers>>

\* rl.Wait(ctx) returns an error while waiting: the goroutine returns and
\* its defer closes rlCh.
RlWaitCancelled ==
  /\ Alive
  /\ rlPc = "timer"
  /\ cancelled
  /\ rlPc' = "closed"
  /\ UNCHANGED <<config, manager, history, request, clock, cancelled, panicked, mainPc, count, counters, tokens,
                 dispatcher, scenarioCh, workers>>

(* ---- ScenarioRun: the target count, the channels, the goroutines ---- *)
ScenarioRunStart ==
  /\ Alive
  /\ mainPc = "start"
  /\ IF Period = Nil /\ Count = Nil
     THEN \* *s.Count dereferences a nil pointer
          /\ panicked' = TRUE
          /\ UNCHANGED <<mainPc, count, dPc, wPc>>
     ELSE /\ count' = TargetCount(Period, Count, Throughput)
          /\ wPc' = [w \in Workers |-> "select"]
          /\ dPc' = "loop"
          /\ mainPc' = "collect"
          /\ UNCHANGED panicked
  /\ UNCHANGED <<config, manager, history, request, clock, cancelled, counters, limiter, i, c, drained, scenarioCh,
                 nReport, nDone>>

(* ---- the dispatcher goroutine of ScenarioRun ---- *)
DispatchLoopCondOffByOne(k, n) == k <= n + 1
DispatchLoopCond(k, n) == k <= n

\* the dispatch loop is over: go on to the drain loop
DispLoopExit ==
  /\ Alive
  /\ dPc = "loop"
  /\ ~DispatchLoopCond(i, count)
  /\ dPc' = "drain"
  /\ drained' = 0
  /\ UNCHANGED <<config, manager, history, request, clock, cancelled, panicked, mainPc, count, counters, limiter,
                 i, c, scenarioCh, workers>>

\* case <-ctx.Done(): return, and the defer closes reportCh
DispCtxDone ==
  /\ Alive
  /\ dPc = "loop"
  /\ DispatchLoopCond(i, count)
  /\ cancelled
  /\ dPc' = "closed"
  /\ UNCHANGED <<config, manager, history, request, clock, cancelled, panicked, mainPc, count, counters, limiter,
                 i, c, drained, scenarioCh, workers>>

\* case _, ok := <-rlCh with ok: the permit goroutine's send is received; c++
DispPermit ==
  /\ Alive
  /\ dPc = "loop"
  /\ DispatchLoopCond(i, count)
  /\ rlPc = "send"
  /\ rlPc' = "call"
  /\ c' = c + 1
  /\ dPc' = "enqueue"
  /\ UNCHANGED <<config, manager, history, request, clock, cancelled, panicked, mainPc, count, counters, tokens,
                 i, drained, scenarioCh, workers>>

\* case _, ok := <-rlCh with !ok: rlCh is closed; return, the defer closes reportCh
DispRlClosed ==
  /\ Alive
  /\ dPc = "loop"
  /\ DispatchLoopCond(i, count)
  /\ rlPc = "closed"
  /\ dPc' = "closed"
  /\ UNCHANGED <<config, manager, history, request, clock, cancelled, panicked, mainPc, count, counters, limiter,
                 i, c, drained, scenarioCh, workers>>

\* (a send that does not block on the full buffer)
DispEnqueueUnbounded ==
  /\ Alive
  /\ dPc = "enqueue"
  /\ scenarioCh' = scenarioCh + 1
  /\ i' = i + 1
  /\ dPc' = "loop"
  /\ UNCHANGED <<config, manager, history, request, clock, cancelled, panicked, mainPc, count,
                 counters, limiter, c, drained, workers>>

\* scenarioCh <- s: blocks while the buffer, of capacity httpWorkerNum, is full
DispEnqueue ==
  /\ Alive
  /\ dPc = "enqueue"
  /\ scenarioCh < httpWorkerNum
  /\ scenarioCh' = scenarioCh + 1
  /\ i' = i + 1
  /\ dPc' = "loop"
  /\ UNCHANGED <<config, manager, history, request, clock, cancelled, panicked, mainPc, count, counters, limiter,
                 c, drained, workers>>

\* the drain loop is over: the function ends and the defer closes reportCh
DispClose ==
  /\ Alive
  /\ dPc = "drain"
  /\ ~(drained < c)
  /\ dPc' = "closed"
  /\ UNCHANGED <<config, manager, history, request, clock, cancelled, panicked, mainPc, count, counters, limiter,
                 i, c, drained, scenarioCh, workers>>

(* ---- scenarioWorker ---- *)
ReportPcs == {"reportNewRequestErr", "reportDoErr", "reportValidationFail", "reportOK"}
DonePcs == {"doneNewRequestErr", "doneDoErr", "doneOK"}

\* the ResultState a worker at a report position sends
ResultOf(pc) ==
  CASE pc = "reportOK" -> ResultOK
    [] pc = "reportValidationFail" -> ResultValidationFail
    [] OTHER -> ResultRequestFail

\* where a worker goes after its send on reportCh
AfterReport(pc) ==
  CASE pc = "reportNewRequestErr" -> "doneNewRequestErr"
    [] pc = "reportDoErr" -> "doneDoErr"
    [] pc = "reportValidationFail" -> "select"
    [] OTHER -> "doneOK"

\* where a worker goes after its send on done
AfterDone(pc) == IF pc = "doneOK" THEN "select" ELSE "exit"

\* the number of rules the validation loop evaluates: none after a failed
\* request, and no rule after the first failing one
RulesEvaluated(r, rules) ==
  IF r.err # "nil" THEN 0
  ELSE IF FirstFailing(rules, r.status) # 0
       THEN FirstFailing(rules, r.status) ELSE Len(rules)

\* (a worker that goes on to the validation loop after a failed Do)
AfterRequestNoReturn(r, rules) ==
  CASE r.err = "NewRequest" -> "reportNewRequestErr"
    [] OTHER -> IF FirstFailing(rules, r.status) # 0
                THEN "reportValidationFail" ELSE "reportOK"

\* the outcome of the request and of the validation loop
AfterRequest(r, rules) ==
  CASE r.err = "NewRequest" -> "reportNewRequestErr"
    [] r.err = "Do" -> "reportDoErr"
    [] OTHER -> IF FirstFailing(rules, r.status) # 0
                THEN "reportValidationFail" ELSE "reportOK"

\* select: case <-ctx.Done(): return
WorkerCtxDone(w) ==
  /\ Alive
  /\ wPc[w] = "select"
  /\ cancelled
  /\ wPc' = [wPc EXCEPT ![w] = "exit"]
  /\ UNCHANGED <<config, manager, history, request, clock, cancelled, panicked, mainPc, count, counters, limiter,
                 dispatcher, scenarioCh, nReport, nDone>>

\* select: case s = <-scenarioCh
WorkerTake(w) ==
  /\ Alive
  /\ wPc[w] = "select"
  /\ scenarioCh > 0
  /\ scenarioCh' = scenarioCh - 1
  /\ wPc' = [wPc EXCEPT ![w] = "request"]
  /\ nReport' = [nReport EXCEPT ![w] = 0]
  /\ nDone' = [nDone EXCEPT ![w] = 0]
  /\ UNCHANGED <<config, manager, history, request, clock, cancelled, panicked, mainPc, count, counters, limiter,
                 dispatcher>>

\* http.NewRequest, http.DefaultClient.Do under the request's own deadline,
\* and the validation loop
WorkerRequest(w, r) ==
  /\ Alive
  /\ wPc[w] = "request"
  /\ wPc' = [wPc EXCEPT ![w] = AfterRequest(r, Validates)]
  /\ wResp' = [wResp EXCEPT ![w] = r]
  /\ wEval' = [wEval EXCEPT ![w] = RulesEvaluated(r, Validates)]
  /\ UNCHANGED <<config, manager, history, clock, cancelled, panicked, mainPc, count, counters, limiter,
                 dispatcher, scenarioCh, nReport, nDone>>

\* reportCh <- state, received by the collection loop of ScenarioRun
\* (reportCh is unbuffered: the send and the receive are one step)
WorkerReport(w) ==
  /\ Alive
  /\ wPc[w] \in ReportPcs
  /\ dPc # "closed"
  /\ mainPc = "collect"
  /\ success' = success + (IF ResultOf(wPc[w]) = ResultOK THEN 1 ELSE 0)
  /\ validationFail' =
       validationFail + (IF ResultOf(wPc[w]) = ResultValidationFail THEN 1 ELSE 0)
  /\ requestFail' =
       requestFail + (IF ResultOf(wPc[w]) = ResultRequestFail THEN 1 ELSE 0)
  /\ wPc' = [wPc EXCEPT ![w] = AfterReport(wPc[w])]
  /\ nReport' = [nReport EXCEPT ![w] = nReport[w] + 1]
  /\ wResp' = [wResp EXCEPT ![w] = NoResponse]
  /\ wEval' = [wEval EXCEPT ![w] = 0]
  /\ UNCHANGED <<config, manager, history, clock, cancelled, panicked, mainPc, count, limiter, dispatcher,
                 scenarioCh, nDone>>

\* reportCh <- state on the closed reportCh: a runtime panic
WorkerReportClosed(w) ==
  /\ Alive
  /\ wPc[w] \in ReportPcs
  /\ dPc = "closed"
  /\ panicked' = TRUE
  /\ UNCHANGED <<config, manager, history, request, clock, cancelled, mainPc, count, counters, limiter, dispatcher,
                 scenarioCh, workers>>

\* done <- struct{}{}, received by <-done of the dispatcher's drain loop
\* (done is unbuffered: the send and the receive are one step)
WorkerDone(w) ==
  /\ Alive
  /\ wPc[w] \in DonePcs
  /\ dPc = "drain"
  /\ drained < c
  /\ drained' = drained + 1
  /\ wPc' = [wPc EXCEPT ![w] = AfterDone(wPc[w])]
  /\ nDone' = [nDone EXCEPT ![w] = nDone[w] + 1]
  /\ UNCHANGED <<config, manager, history, request, clock, cancelled, panicked, mainPc, count, counters, limiter,
                 dPc, i, c, scenarioCh, nReport>>

(* ---- ScenarioRun: range reportCh ends on the closed channel ---- *)
ScenarioRunReturn ==
  /\ Alive
  /\ mainPc = "collect"
  /\ dPc = "closed"
  /\ mainPc' = "returned"
  /\ UNCHANGED <<config, manager, history, request, clock, cancelled, panicked, count, counters, limiter, dispatcher,
                 scenarioCh, workers>>

\* every step but those of the limiter and of the permit goroutine
RunStep ==
  \/ Cancel
  \/ ScenarioRunStart
  \/ DispLoopExit
  \/ DispCtxDone
  \/ DispPermit
  \/ DispRlClosed
  \/ DispEnqueue
  \/ DispClose
  \/ \E w \in Workers : WorkerCtxDone(w)
  \/ \E w \in Workers : WorkerTake(w)
  \/ \E w \in Workers : \E r \in Responses : WorkerRequest(w, r)
  \/ \E w \in Workers : WorkerReport(w)
  \/ \E w \in Workers : WorkerReportClosed(w)
  \/ \E w \in Workers : WorkerDone(w)
  \/ ScenarioRunReturn

Next ==
  \/ RlRefill
  \/ RlWaitCall
  \/ RlWaitToken
  \/ RlWaitCancelled
  \/ RunStep

(* ---- scenarios with a throughput of 0: the bucket never refills ---- *)
InitZero ==
  InitWith({Nil} \cup {Some(p) : p \in 0..MaxPeriod},
           {Nil} \cup {Some(n) : n \in 0..MaxCount},
           {0},
           1..MaxWorkers,
           {<<Some(200)>>})

NextZero ==
  \/ RlWaitCall
  \/ RlWaitCancelled
  \/ RunStep

SpecZero == InitZero /\ [][NextZero]_vars

Spec == Init /\ [][Next]_vars

\* The scheduler runs every goroutine that can take a step, requests end
\* (each has its own deadline) and time passes; nothing forces an interrupt.
Fairness ==
  /\ WF_vars(RlRefill)
  /\ WF_vars(RlWaitCall)
  /\ WF_vars(RlWaitToken)
  /\ WF_vars(RlWaitCancelled)
  /\ WF_vars(ScenarioRunStart)
  /\ WF_vars(DispLoopExit)
  /\ WF_vars(DispCtxDone)
  /\ WF_vars(DispPermit)
  /\ WF_vars(DispRlClosed)
  /\ WF_vars(DispEnqueue)
  /\ WF_vars(DispClose)
  /\ WF_vars(ScenarioRunReturn)
  /\ \A w \in 1..MaxWorkers :
       /\ WF_vars(w \in Workers /\ WorkerCtxDone(w))
       /\ WF_vars(w \in Workers /\ WorkerTake(w))
       /\ WF_vars(w \in Workers /\ \E r \in Responses : WorkerRequest(w, r))
       /\ WF_vars(w \in Workers /\ WorkerReport(w))
       /\ WF_vars(w \in Workers /\ WorkerReportClosed(w))
       /\ WF_vars(w \in Workers /\ WorkerDone(w))

FairSpec == Spec /\ Fairness

(* ---- the target count alone, over a wider range of scenarios ---- *)
InitCount ==
  InitWith({Nil} \cup {Some(p) : p \in 0..CountMaxPeriod},
           {Nil} \cup {Some(n) : n \in 0..CountMaxCount},
           0..CountMaxThroughputNum,
           {1},
           {<<>>})

SpecCount == InitCount /\ [][ScenarioRunStart]_vars

(* ---- main: one goroutine per scenario, the map reports, the WaitGroup ---- *)
Goroutines == DOMAIN gPc

\* the reports ScenarioRun may return (modelled in full by the actions above)
ReportValues ==
  {[SuccessCount |-> k, ValidationFailCount |-> 0, RequestFailCount |-> 0] :
     k \in 0..MaxReport}

\* (a map that keeps the entry a name already has)
MapStoreIfAbsent(m, name, report) ==
  IF m[name] = Nil THEN [m EXCEPT ![name] = Some(report)] ELSE m
\* reports[s.Name] = report
MapStore(m, name, report) == [m EXCEPT ![name] = Some(report)]

\* report := ScenarioRun(ctx, s) returns
GoScenarioRun(g, r) ==
  /\ Alive
  /\ gPc[g] = "run"
  /\ ~gNoTerm[g]
  /\ gReport' = [gReport EXCEPT ![g] = Some(r)]
  /\ gPc' = [gPc EXCEPT ![g] = "lock"]
  /\ UNCHANGED <<scenario, panicked, gName, gNoTerm, mutex, reports, wg, mgrPc,
                 writeOrder>>

\* ScenarioRun(ctx, s) panics on *s.Count of a scenario with neither period
\* nor count: the goroutine's deferred calls run before the process dies
GoScenarioRunPanic(g) ==
  /\ Alive
  /\ gPc[g] = "run"
  /\ gNoTerm[g]
  /\ gPc' = [gPc EXCEPT ![g] = "panicUnlock"]
  /\ UNCHANGED <<scenario, panicked, gName, gNoTerm, gReport, mutex, reports, wg,
                 mgrPc, writeOrder>>

\* mutex.Lock()
GoLock(g) ==
  /\ Alive
  /\ gPc[g] = "lock"
  /\ mutex = 0
  /\ mutex' = g
  /\ gPc' = [gPc EXCEPT ![g] = "write"]
  /\ UNCHANGED <<scenario, panicked, gName, gNoTerm, gReport, reports, wg, mgrPc,
                 writeOrder>>

\* reports[s.Name] = report
GoWrite(g) ==
  /\ Alive
  /\ gPc[g] = "write"
  /\ reports' = MapStore(reports, gName[g], Deref(gReport[g]))
  /\ writeOrder' = Append(writeOrder, g)
  /\ gPc' = [gPc EXCEPT ![g] = "unlock"]
  /\ UNCHANGED <<scenario, panicked, gName, gNoTerm, gReport, mutex, wg, mgrPc>>

\* the deferred mutex.Unlock(), after the write or while panicking: a fatal
\* error on an unlocked mutex, else the mutex is unlocked, whoever locked it
GoUnlock(g) ==
  /\ Alive
  /\ gPc[g] \in {"unlock", "panicUnlock"}
  /\ IF mutex = 0
     THEN panicked' = TRUE /\ UNCHANGED <<mutex, gPc>>
     ELSE /\ mutex' = 0
          /\ gPc' = [gPc EXCEPT ![g] = IF gPc[g] = "unlock" THEN "wgDone"
                                       ELSE "panicWgDone"]
          /\ UNCHANGED panicked
  /\ UNCHANGED <<scenario, gName, gNoTerm, gReport, reports, wg, mgrPc, writeOrder>>

\* the deferred wg.Done(); after it a panicking goroutine ends the process
GoWgDone(g) ==
  /\ Alive
  /\ gPc[g] \in {"wgDone", "panicWgDone"}
  /\ wg' = wg - 1
  /\ gPc' = [gPc EXCEPT ![g] = IF gPc[g] = "wgDone" THEN "end" ELSE "panicExit"]
  /\ UNCHANGED <<scenario, panicked, gName, gNoTerm, gReport, mutex, reports, mgrPc,
                 writeOrder>>

\* the panic, its deferred calls run, ends the process
GoPanicExit(g) ==
  /\ Alive
  /\ gPc[g] = "panicExit"
  /\ panicked' = TRUE
  /\ UNCHANGED <<scenario, manager>>

\* wg.Wait() returns: main goes on to print reports
MainWait ==
  /\ Alive
  /\ mgrPc = "wait"
  /\ wg = 0
  /\ mgrPc' = "result"
  /\ UNCHANGED <<scenario, panicked, gName, gNoTerm, gPc, gReport, mutex, reports,
                 wg, writeOrder>>

\* main after its loop over scenario.Scenarios: every goroutine started
InitMain ==
  /\ InitScenario({Nil}, {Some(0)}, {ThroughputDen}, {1}, {<<>>})
  /\ \E n \in 1..MaxScenarios :
       /\ gName \in [1..n -> Names]
       /\ gNoTerm \in [1..n -> BOOLEAN]
       /\ gPc = [g \in 1..n |-> "run"]
       /\ gReport = [g \in 1..n |-> Nil]
       /\ wg = n
  /\ mutex = 0
  /\ reports = [n \in Names |-> Nil]
  /\ mgrPc = "wait"
  /\ writeOrder = <<>>

NextMain ==
  \/ \E g \in Goroutines : \E r \in ReportValues : GoScenarioRun(g, r)
  \/ \E g \in Goroutines : GoScenarioRunPanic(g)
  \/ \E g \in Goroutines : GoLock(g)
  \/ \E g \in Goroutines : GoWrite(g)
  \/ \E g \in Goroutines : GoUnlock(g)
  \/ \E g \in Goroutines : GoWgDone(g)
  \/ \E g \in Goroutines : GoPanicExit(g)
  \/ MainWait

SpecMain == InitMain /\ [][NextMain]_vars

(* ---- timed runs: the bucket refills with the clock ---- *)
InitRate ==
  InitWith({Nil}, {Some(n) : n \in 1..RateMaxCount}, 0..ThroughputDen, {1},
           {<<Some(200)>>})

NextRate ==
  \/ Tick
  \/ RlWaitCall
  \/ RlWaitCancelled
  \/ RunStep

SpecRate == InitRate /\ [][NextRate]_vars

(* ---- one unit, over every list of at most MaxRules validation rules ---- *)
RuleLists ==
  UNION {[1..n -> {Nil} \cup {Some(code) : code \in StatusCodes}] : n \in 0..MaxRules}

InitValidate ==
  InitWith({Nil}, {Some(1), Some(2)}, {ThroughputDen}, {1}, RuleLists)

SpecValidate == InitValidate /\ [][Next]_vars

(***************************************************************************)
(* The claims.                                                             *)
(***************************************************************************)
Returned == mainPc = "returned"
Summary == success + validationFail + requestFail
NoTermination == Period = Nil /\ Count = Nil
BothOrNeither == (Period = Nil) = (Count = Nil)

\* C1: whenever ScenarioRun has returned its summary, SuccessCount +
\* ValidationFailCount + RequestFailCount equals the number c of units the
\* dispatcher dispatched.
C1_SummaryEqualsDispatched == Returned => Summary = c

\* C2: in a run that is never cancelled, with a throughput above 0 and a
\* target count, ScenarioRun eventually returns its summary.
C2_EventuallyReturns == <>(Returned \/ cancelled \/ Throughput = 0 \/ NoTermination)

\* C3: once cancellation is raised in a run with a target count, ScenarioRun
\* still eventually returns.
C3_CancelledEventuallyReturns == (cancelled /\ ~NoTermination) ~> Returned

\* C4: whenever a worker is through with a unit it took (it is back at its
\* select or has returned), it has sent exactly one result on reportCh and
\* exactly one completion signal on done for that unit.
C4_OneReportOneDone ==
  [][\A w \in Workers :
       (wPc[w] \in ReportPcs \cup DonePcs /\ wPc'[w] \in {"select", "exit"})
         => (nReport'[w] = 1 /\ nDone'[w] = 1)]_vars

\* C5: the dispatcher has closed reportCh only after receiving as many
\* completion signals as units it dispatched.
C5_CloseAfterDrain == dPc = "closed" => drained = c

\* C6: once the context is cancelled, no step dispatches a unit (c grows, a
\* unit enters scenarioCh) and no worker takes a unit out of scenarioCh.
C6_NothingNewAfterCancel == [][cancelled => (c' = c /\ scenarioCh' = scenarioCh)]_vars

\* C7: the number c of units dispatched never exceeds the target count.
C7_DispatchedAtMostTarget == c <= count
C7_Witness == count >= 2 /\ c = count /\ dPc = "drain"

\* C8: once computed, the target count is the least integer not below
\* period * throughput when period is set, and is count otherwise.
C8_TargetCount ==
  (mainPc # "start" /\ ~panicked) =>
    IF Period # Nil
    THEN /\ count * ThroughputDen >= Deref(Period) * Throughput
         /\ (count - 1) * ThroughputDen < Deref(Period) * Throughput
    ELSE count = Deref(Count)
C8_Witness ==
  /\ Period = Some(10) /\ Throughput = 2 * ThroughputDen
  /\ mainPc = "collect" /\ count = 20

\* C9: a scenario that sets both period and count, or neither, never gets
\* past its configuration: the process does not crash, no goroutine of the
\* run is started and nothing is dispatched.
C9_BothOrNeitherRejected ==
  BothOrNeither => (~panicked /\ mainPc = "start" /\ dPc = "none" /\ c = 0)

\* C10: a scenario with throughput 0 dispatches nothing, and the summary
\* ScenarioRun returns for it is all zero.
C10_ZeroThroughputZeroUnits ==
  Throughput = 0 =>
    /\ c = 0
    /\ Returned => (success = 0 /\ validationFail = 0 /\ requestFail = 0)

\* C11: for a unit whose request returned a response, the rules are
\* evaluated in declared order up to the first one whose expected status code
\* differs from the actual one: with such a rule the result is
\* ResultValidationFail and no later rule is evaluated, without one the
\* result is ResultOK and every rule was evaluated.
Mismatches(w) ==
  {k \in 1..Len(Validates) :
     Validates[k] # Nil /\ Validates[k][1] # wResp[w].status}
C11_FirstFailingRuleDecides ==
  \A w \in Workers :
    wResp[w].err = "nil" =>
      IF Mismatches(w) = {}
      THEN /\ wPc[w] = "reportOK"
           /\ ResultOf(wPc[w]) = ResultOK
           /\ wEval[w] = Len(Validates)
      ELSE /\ wPc[w] = "reportValidationFail"
           /\ ResultOf(wPc[w]) = ResultValidationFail
           /\ wEval[w] \in Mismatches(w)
           /\ \A k \in Mismatches(w) : wEval[w] <= k
C11_Witness ==
  /\ Validates = <<Some(200), Some(404)>>
  /\ wResp[1] = [err |-> "nil", status |-> 404]
  /\ wPc[1] = "reportValidationFail"
  /\ wEval[1] = 1

\* C12: for a unit whose request could not be constructed or failed to
\* execute, the result is ResultRequestFail and no validation rule is evaluated.
C12_FailedRequestNotValidated ==
  \A w \in Workers :
    wResp[w].err \in {"NewRequest", "Do"} =>
      /\ wPc[w] \in {"reportNewRequestErr", "reportDoErr"}
      /\ ResultOf(wPc[w]) = ResultRequestFail
      /\ wEval[w] = 0
C12_Witness ==
  /\ Len(Validates) = 2
  /\ wResp[1].err = "Do"
  /\ wPc[1] = "reportDoErr"
  /\ wEval[1] = 0

\* C13: until the context is cancelled no worker of the pool has returned,
\* whatever the results of the units it handled: the pool keeps its
\* httpWorkerNum workers.
C13_PoolKeepsWorkers ==
  (mainPc # "start" /\ ~cancelled) => \A w \in Workers : wPc[w] # "exit"

\* C14: at every time the number c of permits the dispatcher has received is
\* at most 1 + R * now, R = Throughput/ThroughputDen permits a tick, also
\* after the permit goroutine held a granted permit for a blocked dispatcher.
C14_PermitsWithinBurst == c * ThroughputDen <= ThroughputDen + Throughput * now
C14_Witness ==
  /\ dPc = "enqueue" /\ scenarioCh = httpWorkerNum
  /\ rlPc = "send" /\ tokens = 1
  /\ ~cancelled

\* C15: once the context is cancelled, the permit goroutine eventually
\* returns and closes rlCh (unless the process has died).
C15_PermitGoroutineCloses == cancelled ~> (rlPc = "closed" \/ panicked)

\* C16: once every scenario goroutine has ended and wg.Wait has returned,
\* reports has an entry for exactly the names of the scenarios, and the
\* entry of a name is the report of the scenario of that name that wrote last.
LastWriter(n) ==
  writeOrder[CHOOSE k \in 1..Len(writeOrder) :
               /\ gName[writeOrder[k]] = n
               /\ \A m \in (k + 1)..Len(writeOrder) : gName[writeOrder[m]] # n]
AllReturned == mgrPc = "result" /\ \A g \in Goroutines : gPc[g] = "end"
C16_OneEntryPerNameLastWins ==
  AllReturned =>
    \A n \in Names :
      IF \E g \in Goroutines : gName[g] = n
      THEN reports[n] = gReport[LastWriter(n)]
      ELSE reports[n] = Nil
C16_Witness ==
  /\ AllReturned
  /\ Len(gName) = 2 /\ gName[1] = gName[2]
  /\ gReport[1] # gReport[2]
  /\ writeOrder = <<2, 1>>
  /\ reports[gName[1]] = gReport[1]

\* C17: at most one scenario goroutine is between its mutex.Lock and its
\* mutex.Unlock, the mutex stays locked by that goroutine until its own
\* mutex.Unlock (nobody else unlocks it), and no goroutine writes reports twice.
C17_MutualExclusion ==
  /\ Cardinality({g \in Goroutines : gPc[g] \in {"write", "unlock"}}) <= 1
  /\ \A g \in Goroutines : gPc[g] \in {"write", "unlock"} => mutex = g
  /\ \A k, m \in 1..Len(writeOrder) : writeOrder[k] = writeOrder[m] => k = m

(* ---- cancellation with requests in flight ---- *)
Holding == {w \in Workers : wPc[w] \in {"request"} \cup ReportPcs}

\* cancel() of main, noting what the summary has and what the workers owe it
CancelInFlight ==
  /\ Alive
  /\ ~cancelled
  /\ cancelled' = TRUE
  /\ dueAtCancel' = Summary + Cardinality(Holding)
  /\ UNCHANGED <<config, manager, request, clock, panicked, mainPc, count, counters,
                 limiter, dispatcher, scenarioCh, workers>>

InitInFlight ==
  InitWith({Nil}, {Some(n) : n \in 1..MaxCount}, {ThroughputDen}, 1..MaxWorkers,
           {<<Some(200)>>})

NextInFlight ==
  \/ RlRefill
  \/ RlWaitCall
  \/ RlWaitToken
  \/ RlWaitCancelled
  \/ CancelInFlight
  \/ ScenarioRunStart
  \/ DispLoopExit
  \/ DispCtxDone
  \/ DispPermit
  \/ DispRlClosed
  \/ DispEnqueue
  \/ DispClose
  \/ \E w \in Workers : WorkerCtxDone(w)
  \/ \E w \in Workers : WorkerTake(w)
  \/ \E w \in Workers : \E r \in Responses : WorkerRequest(w, r)
  \/ \E w \in Workers : WorkerReport(w)
  \/ \E w \in Workers : WorkerReportClosed(w)
  \/ \E w \in Workers : WorkerDone(w)
  \/ ScenarioRunReturn

SpecInFlight == InitInFlight /\ [][NextInFlight]_vars

\* C18: the result of every unit a worker held when the context was cancelled
\* is in the returned summary: the summary is at least what it had at the
\* cancellation plus one result per worker that then held a unit.
C18_InFlightCounted ==
  (Returned /\ cancelled) => Summary >= dueAtCancel

\* C19: the results the collection loop has received are at most the units
\* dispatched so far, scenarioCh holds at most httpWorkerNum units and at
\* most httpWorkerNum requests are in flight.
InFlight == {w \in Workers : wPc[w] = "request"}
C19_BoundedQueueAndResults ==
  /\ Summary <= c
  /\ scenarioCh <= httpWorkerNum
  /\ Cardinality(InFlight) <= httpWorkerNum
C19_Witness ==
  /\ scenarioCh = httpWorkerNum
  /\ Cardinality(InFlight) = httpWorkerNum
  /\ Summary >= 1
  /\ Summary < c

\* C20: no worker sends on reportCh after the dispatcher has closed it: the
\* process never dies of that send.
C20_NoSendOnClosed == ~(panicked /\ dPc = "closed")
====
